---- MODULE Spec2Model ----
(***************************************************************************)
(* RsGenetic: the sequential Simulator (src/sim/seq.rs) and the            *)
(* TournamentSelector (src/sim/select/tournament.rs).                      *)
(*                                                                         *)
(* Phenotypes are the `Test` fixture of both test modules, a struct with   *)
(* one numeric field f.  A field value is a record [nan, v]: nan = TRUE is *)
(* the non-orderable value (f64 NaN) that `partial_cmp` answers None for,  *)
(* otherwise v is the number.  Option<X> is a sequence: <<>> is None and   *)
(* <<x>> is Some(x).                                                       *)
(*                                                                         *)
(* The first seven variables are the fields of the Simulator.  The others  *)
(* record what the calls did: mode is "run" while a run() call has not     *)
(* returned, panicked says that a call has panicked, lastStep and prevStep *)
(* are the results of the last step() and of the one before it, runResult  *)
(* is what the last run() returned, succ counts the steps that returned    *)
(* Success, got is the result of a get() made since the last step(),       *)
(* selResult is the result of the last select, tournaments the samples it  *)
(* drew, pop0 the population at construction, culled the arguments and the *)
(* surviving positions of a kill_off call made on its own, and loopTick    *)
(* the parity of the iterations of the run() in progress.                  *)
(***************************************************************************)
EXTENDS Integers, Sequences, FiniteSets, TLC

VARIABLES population, iter_limit, selector, fitness_type, earlystopper,
          duration, error,
          mode, panicked, lastStep, prevStep, runResult, succ, got,
          selResult, tournaments, pop0, culled, loopTick

vars == <<population, iter_limit, selector, fitness_type, earlystopper,
          duration, error, mode, panicked, lastStep, prevStep, runResult,
          succ, got, selResult, tournaments, pop0, culled, loopTick>>

simFields == <<population, iter_limit, selector, fitness_type, earlystopper,
               duration, error>>

(* ------------------------------- bounds -------------------------------- *)
\* largest population handed to TournamentSelector::select on its own
MaxPop == 9
\* largest population of a Simulator
MaxSimPop == 5
\* largest |f| of an initial phenotype
MaxF == 1
\* usize is modelled UsizeBits wide: count ranges over 0 .. 2^UsizeBits - 1
UsizeBits == 4
\* largest `participants` of a selector, apart from the population size
MaxPart == 4
\* the same for a Simulator's selector
MaxSimPart == 2
\* largest number of random draws (count / 2 * participants) of one select
MaxDraws == 4
\* largest count of a Simulator's selector
MaxCount == 2
\* largest max-iterations of a Simulator
MaxIters == 2
\* largest early-stop window
MaxWindow == 2
\* largest population handed to kill_off on its own
MaxKillPop == 30

UsizeMod == 2 ^ UsizeBits

None == <<>>
Some(x) == <<x>>

(* ------------------------------ phenotype ------------------------------ *)
NaN == [nan |-> TRUE, v |-> 0]
Num(i) == [nan |-> FALSE, v |-> i]

Abs(i) == IF i < 0 THEN 0 - i ELSE i

\* Test::fitness: (self.f - 0).abs()
fitness(p) == IF p.nan THEN NaN ELSE Num(Abs(p.v))

\* Test::crossover: min(self.f, t.f); a non-orderable operand yields the other
crossover(a, b) ==
    IF a.nan THEN b
    ELSE IF b.nan THEN a
    ELSE IF b.v < a.v THEN b ELSE a

\* Test::mutate: one step towards 0; neither f < 0 nor f > 0 clones self
mutate(p) ==
    IF p.nan THEN p
    ELSE IF p.v < 0 THEN Num(p.v + 1)
    ELSE IF p.v > 0 THEN Num(p.v - 1)
    ELSE p

(* ------------------------------- sorting ------------------------------- *)
\* the comparator of every sort_by in the source:
\* x.fitness().partial_cmp(&y.fitness()).unwrap_or(Ordering::Equal)
cmp(x, y) ==
    LET fx == fitness(x)
        fy == fitness(y)
    IN  IF fx.nan \/ fy.nan THEN "Equal"
        ELSE IF fx.v < fy.v THEN "Less"
        ELSE IF fx.v > fy.v THEN "Greater"
        ELSE "Equal"

\* insert x into the sorted prefix s: x moves left past every element it is
\* Less than, and stops at the first one it is not Less than
RECURSIVE InsertTail(_, _)
InsertTail(s, x) ==
    IF s = <<>> THEN <<x>>
    ELSE IF cmp(x, s[Len(s)]) = "Less"
         THEN Append(InsertTail(SubSeq(s, 1, Len(s) - 1), x), s[Len(s)])
         ELSE Append(s, x)

\* slice::sort_by on a short slice: the stable insertion sort
RECURSIVE sort_by(_)
sort_by(s) ==
    IF s = <<>> THEN <<>>
    ELSE InsertTail(sort_by(SubSeq(s, 1, Len(s) - 1)), s[Len(s)])

(* ------------------------- TournamentSelector -------------------------- *)
Maximize == "Maximize"
Minimize == "Minimize"
FitnessType == {Maximize, Minimize}

Err(param, value) == [tag |-> "Err", param |-> param, value |-> value, pairs |-> <<>>]
Ok(pairs) == [tag |-> "Ok", param |-> "", value |-> 0, pairs |-> pairs]
Panic == [tag |-> "Panic", param |-> "", value |-> 0, pairs |-> <<>>]

\* the builds of the crate: arithmetic overflow panics with overflow checks
\* (debug) and wraps without them (release)
Builds == {"debug", "release"}

\* lines 50-54: the tournament drawn by the index sequence idx
Tournament(pop, idx) == [j \in 1..Len(idx) |-> pop[idx[j]]]

\* the Maximize arm takes the front of the sorted tournament, as Minimize does
TournamentPair_FrontOnly(t, ft) ==
    LET s == sort_by(t)
    IN  IF Len(s) < 2 THEN <<>> ELSE <<s[1], s[2]>>

\* lines 55-66: the sorted tournament's last two (Maximize) or first two
\* (Minimize); <<>> when the index is out of range
TournamentPair(t, ft) ==
    LET s == sort_by(t)
    IN  IF Len(s) < 2 THEN <<>>
        ELSE IF ft = Maximize THEN <<s[Len(s)], s[Len(s) - 1]>>
        ELSE <<s[1], s[2]>>

\* all index sequences of `rounds` tournaments of `p` draws from 0..n-1
\* (kept 1-based)
Draws(n, p, rounds) == [1..rounds -> [1..p -> 1..n]]

\* TournamentSelector::select for one build and one outcome ts of the random
\* draws, the tournaments of lines 50-54 in turn; ts is used only when the
\* validation passes
select(sel, pop, ft, bld, ts) ==
    LET n == Len(pop)
        overflow == sel.count * 2 >= UsizeMod
        twice == (sel.count * 2) % UsizeMod
    IN  IF sel.count <= 0 \/ sel.count % 2 # 0 THEN Err("count", sel.count)
        ELSE IF overflow /\ bld = "debug" THEN Panic
        ELSE IF twice >= n THEN Err("count", sel.count)
        ELSE IF sel.participants <= 0 \/ sel.participants >= n
             THEN Err("participants", sel.participants)
        \* count / 2 >= 2^(UsizeBits - 2) pairs of two boxes do not fit a
        \* Vec, whose size is at most isize::MAX bytes
        ELSE IF overflow THEN Panic
        ELSE LET pairs == [r \in 1..Len(ts) |-> TournamentPair(ts[r], ft)]
             IN  IF \E r \in 1..Len(pairs) : pairs[r] = <<>> THEN Panic
                 ELSE Ok(pairs)

\* the validation of lines 36-45 lets (sel, n) through and the tournaments run
Accepted(sel, n) ==
    /\ sel.count > 0 /\ sel.count % 2 = 0
    /\ sel.count * 2 < UsizeMod
    /\ sel.count * 2 < n
    /\ sel.participants > 0 /\ sel.participants < n

\* the tournaments one select call can draw (rng.gen_range, line 52)
SelectDraws(sel, pop) ==
    IF Accepted(sel, Len(pop))
    THEN {[r \in 1..Len(d) |-> Tournament(pop, d[r])] :
            d \in Draws(Len(pop), sel.participants, sel.count \div 2)}
    ELSE {<<>>}

\* the builds that differ on this selector: those where count * 2 overflows
BuildsAt(sel) == IF sel.count * 2 >= UsizeMod THEN Builds ELSE {"release"}

\* every result select can return on (sel, pop, ft)
SelectOutcomes(sel, pop, ft) ==
    {select(sel, pop, ft, bld, ts) :
        bld \in BuildsAt(sel), ts \in SelectDraws(sel, pop)}

(* ----------------------------- populations ----------------------------- *)
Pheno == {Num(i) : i \in (0 - 1)..MaxF} \cup {NaN}

\* (0..n).map(|i| Test { f: i }) of the tests
Ramp(n) == [i \in 1..n |-> Num(i - 1)]
\* a population repeating the phenotypes of seed; a seed of one phenotype is
\* (0..n).map(|_| Test { f: 0 }) of test_early_stopping
Cyc(n, seed) == [i \in 1..n |-> seed[((i - 1) % Len(seed)) + 1]]

\* every phenotype once: -1, 0, .., MaxF, NaN
PhenoSeq == [i \in 1..(MaxF + 3) |-> IF i = MaxF + 3 THEN NaN ELSE Num(i - 2)]

Seeds == {<<Num(0)>>, PhenoSeq}

SelPopulations ==
    {Ramp(n) : n \in 0..MaxPop} \cup {Cyc(n, seed) : n \in 0..MaxPop, seed \in Seeds}

\* the selectors of at most maxCount and maxPart, and those whose participants
\* is the population size; an accepted one makes at most MaxDraws draws
Selectors(maxCount, maxPart, n) ==
    {s \in [count : 0..maxCount, participants : (0..maxPart) \cup {n}] :
        Accepted(s, n) => (s.count \div 2) * s.participants <= MaxDraws}

(* ------------------------ IterLimit, EarlyStopper ---------------------- *)
\* IterLimit::new(max): a counter from 0 with a ceiling
IterLimit_new(max) == [cur |-> 0, max |-> max]
IterLimit_reached(l) == l.cur >= l.max
IterLimit_inc(l) == [l EXCEPT !.cur = l.cur + 1]
IterLimit_get(l) == l.cur

\* EarlyStopper::new(delta, n_iters): an empty history of best fitnesses
EarlyStopper_new(delta, window) ==
    [delta |-> delta, window |-> window, history |-> <<>>]

\* append the value; drop the oldest entry when the history exceeds window
EarlyStopper_update(es, f) ==
    LET h == Append(es.history, f)
    IN  [es EXCEPT !.history =
            IF Len(h) > es.window THEN SubSeq(h, 2, Len(h)) ELSE h]

\* the window is full and the newest value is within delta of the oldest
\* (a comparison with a non-orderable value is false)
EarlyStopper_reached(es) ==
    LET h == es.history
    IN  /\ Len(h) >= es.window
        /\ Len(h) > 0
        /\ ~h[1].nan /\ ~h[Len(h)].nan
        /\ Abs(h[Len(h)].v - h[1].v) < es.delta

(* ------------------------------ Simulator ------------------------------ *)
Success == "Success"
Done == "Done"
Failure == "Failure"

EmptyMsg == [param |-> "population", value |-> 0]

\* the selector's error is replaced by the simulator's own message
SelMsg_Own(res) == EmptyMsg

\* line 78: parents_tmp.err().unwrap()
SelMsg(res) == [param |-> res.param, value |-> res.value]

\* the iteration limit is consulted only when there is no early stopper
should_stop_StopperOnly ==
    IF earlystopper # None
    THEN EarlyStopper_reached(earlystopper[1])
    ELSE IterLimit_reached(iter_limit)

\* the stop conditions are not looked at
should_stop_Never == FALSE

\* a stop is reported once: the step() after a Done does not look again
should_stop_Once ==
    /\ lastStep # Done
    /\ IF earlystopper # None
       THEN IterLimit_reached(iter_limit) \/ EarlyStopper_reached(earlystopper[1])
       ELSE IterLimit_reached(iter_limit)

\* lines 68-71
should_stop ==
    IF earlystopper # None
    THEN IterLimit_reached(iter_limit) \/ EarlyStopper_reached(earlystopper[1])
    ELSE IterLimit_reached(iter_limit)

\* the stop conditions are looked at before the population
is_empty_AfterStop == population = <<>> /\ ~should_stop

\* line 62: self.population.is_empty()
is_empty == population = <<>>

\* Vec::remove(i): the vector without its (0-based) i-th element
Remove(s, i) == [j \in 1..(Len(s) - 1) |-> IF j <= i THEN s[j] ELSE s[j + 1]]

\* the index is advanced but not reduced modulo the length
RECURSIVE KillLoop_NoWrap(_, _, _, _)
KillLoop_NoWrap(pop, i, ratio, left) ==
    IF left = 0 THEN [pop |-> pop, panic |-> FALSE]
    ELSE IF i >= Len(pop) THEN [pop |-> pop, panic |-> TRUE]
    ELSE LET rest == Remove(pop, i)
         IN  IF Len(rest) = 0 \/ ratio < 1
             THEN [pop |-> rest, panic |-> TRUE]
             ELSE KillLoop_NoWrap(rest, i + ratio - 1, ratio, left - 1)

\* the index is advanced by ratio, not by ratio - 1
RECURSIVE KillLoop_FullStride(_, _, _, _)
KillLoop_FullStride(pop, i, ratio, left) ==
    IF left = 0 THEN [pop |-> pop, panic |-> FALSE]
    ELSE IF i >= Len(pop) THEN [pop |-> pop, panic |-> TRUE]
    ELSE LET rest == Remove(pop, i)
         IN  IF Len(rest) = 0 \/ ratio < 1
             THEN [pop |-> rest, panic |-> TRUE]
             ELSE KillLoop_FullStride(rest, (i + ratio) % Len(rest), ratio, left - 1)

\* the loop of kill_off, lines 168-174, from index i with `left` removals to
\* go; panic is set by an index out of range or a remainder by zero
RECURSIVE KillLoop(_, _, _, _)
KillLoop(pop, i, ratio, left) ==
    IF left = 0 THEN [pop |-> pop, panic |-> FALSE]
    ELSE IF i >= Len(pop) THEN [pop |-> pop, panic |-> TRUE]
    ELSE LET rest == Remove(pop, i)
         IN  IF Len(rest) = 0 \/ ratio < 1
             THEN [pop |-> rest, panic |-> TRUE]
             ELSE KillLoop(rest, (i + ratio - 1) % Len(rest), ratio, left - 1)

\* the loop runs while selected <= count
kill_off_OneMore(pop, count, i0) ==
    IF count = 0 THEN [pop |-> pop, panic |-> TRUE]
    ELSE KillLoop(pop, i0, Len(pop) \div count, count + 1)

\* kill_off(count) when the random start index is i0
kill_off(pop, count, i0) ==
    IF count = 0 THEN [pop |-> pop, panic |-> TRUE]
    ELSE KillLoop(pop, i0, Len(pop) \div count, count)

\* the children are not mutated
Children_CrossoverOnly(pairs) ==
    [j \in 1..Len(pairs) |-> crossover(pairs[j][1], pairs[j][2])]

\* lines 83-88: one child per pair, crossover then mutate
Children(pairs) ==
    [j \in 1..Len(pairs) |-> mutate(crossover(pairs[j][1], pairs[j][2]))]

\* the front of the sorted clone, whatever the fitness type
Best_Front(pop, ft) == sort_by(pop)[1]

\* lines 94-102 and 137-144: the best phenotype of a non-empty population
Best(pop, ft) ==
    LET cloned == sort_by(pop)
    IN  IF ft = Maximize THEN cloned[Len(cloned)] ELSE cloned[1]

\* (SteadyTime::now() - time_start).num_nanoseconds(): one tick; None needs
\* a step of more than i64::MAX nanoseconds
TimeReads == {Some(1)}

\* lines 109-117
AddDuration(d, y) == IF d # None /\ y # None THEN Some(d[1] + y[1]) ELSE None

\* step() with the early stopper updated before the replacement, from the
\* population the parents were selected from
step_UpdateFirst(r) ==
    IF is_empty
    THEN /\ r = Failure
         /\ error' = Some(EmptyMsg)
         /\ UNCHANGED <<population, iter_limit, earlystopper, duration,
                        panicked, succ, selResult, tournaments>>
    ELSE IF should_stop
    THEN /\ r = Done
         /\ UNCHANGED <<population, iter_limit, earlystopper, duration, error,
                        panicked, succ, selResult, tournaments>>
    ELSE \E res \in SelectOutcomes(selector, population, fitness_type) :
             /\ selResult' = res
             /\ UNCHANGED tournaments
             /\ CASE res.tag = "Err" ->
                      /\ r = Failure
                      /\ error' = Some(SelMsg(res))
                      /\ UNCHANGED <<population, iter_limit, earlystopper,
                                     duration, panicked, succ>>
                  [] res.tag = "Panic" ->
                      /\ r = ""
                      /\ panicked' = TRUE
                      /\ UNCHANGED <<population, iter_limit, earlystopper,
                                     duration, error, succ>>
                  [] res.tag = "Ok" ->
                      \E i0 \in 0..(Len(population) - 1), y \in TimeReads :
                      LET children == Children(res.pairs)
                          killed == kill_off(population, Len(children), i0)
                          newpop == killed.pop \o children
                      IN  IF killed.panic
                          THEN /\ r = ""
                               /\ panicked' = TRUE
                               /\ population' = killed.pop
                               /\ UNCHANGED <<iter_limit, earlystopper,
                                              duration, error, succ>>
                          ELSE /\ r = Success
                               /\ population' = newpop
                               /\ earlystopper' =
                                    IF earlystopper # None
                                    THEN Some(EarlyStopper_update(earlystopper[1],
                                              fitness(Best(population, fitness_type))))
                                    ELSE None
                               /\ iter_limit' = IterLimit_inc(iter_limit)
                               /\ duration' = AddDuration(duration, y)
                               /\ succ' = succ + 1
                               /\ UNCHANGED <<error, panicked>>

\* step() returning r
step(r) ==
    IF is_empty
    THEN /\ r = Failure
         /\ error' = Some(EmptyMsg)
         /\ UNCHANGED <<population, iter_limit, earlystopper, duration,
                        panicked, succ, selResult, tournaments>>
    ELSE IF should_stop
    THEN /\ r = Done
         /\ UNCHANGED <<population, iter_limit, earlystopper, duration, error,
                        panicked, succ, selResult, tournaments>>
    ELSE \E res \in SelectOutcomes(selector, population, fitness_type) :
             /\ selResult' = res
             /\ UNCHANGED tournaments
             /\ CASE res.tag = "Err" ->
                      /\ r = Failure
                      /\ error' = Some(SelMsg(res))
                      /\ UNCHANGED <<population, iter_limit, earlystopper,
                                     duration, panicked, succ>>
                  [] res.tag = "Panic" ->
                      /\ r = ""
                      /\ panicked' = TRUE
                      /\ UNCHANGED <<population, iter_limit, earlystopper,
                                     duration, error, succ>>
                  [] res.tag = "Ok" ->
                      \E i0 \in 0..(Len(population) - 1), y \in TimeReads :
                      LET children == Children(res.pairs)
                          killed == kill_off(population, Len(children), i0)
                          newpop == killed.pop \o children
                      IN  IF killed.panic
                          THEN /\ r = ""
                               /\ panicked' = TRUE
                               /\ population' = killed.pop
                               /\ UNCHANGED <<iter_limit, earlystopper,
                                              duration, error, succ>>
                          ELSE /\ r = Success
                               /\ population' = newpop
                               /\ earlystopper' =
                                    IF earlystopper # None
                                    THEN Some(EarlyStopper_update(earlystopper[1],
                                              fitness(Best(newpop, fitness_type))))
                                    ELSE None
                               /\ iter_limit' = IterLimit_inc(iter_limit)
                               /\ duration' = AddDuration(duration, y)
                               /\ succ' = succ + 1
                               /\ UNCHANGED <<error, panicked>>

StepResults == {Success, Done, Failure, ""}

NoGot == [tag |-> "", msg |-> None, best |-> <<>>]
NoSel == [tag |-> "", param |-> "", value |-> 0, pairs |-> <<>>]
\* no kill_off call on its own has been made
NoKill == [count |-> 0, start |-> 0, kept |-> <<>>, done |-> FALSE]

\* a step() call of the client
Step ==
    /\ mode = "idle" /\ ~panicked
    /\ \E r \in StepResults : step(r) /\ lastStep' = r
    /\ prevStep' = lastStep
    /\ got' = NoGot
    /\ UNCHANGED <<selector, fitness_type, mode, runResult, pop0, culled,
                   loopTick>>

\* the loop of run() is left on Failure only
RunIter_FailureOnly ==
    /\ ~panicked
    /\ \E r \in StepResults :
         /\ step(r)
         /\ lastStep' = r
         /\ IF r = Failure
            THEN mode' = "idle" /\ runResult' = r
            ELSE mode' = "run" /\ runResult' = ""
    /\ prevStep' = lastStep
    /\ got' = NoGot
    /\ loopTick' = (mode' = "run" /\ ~loopTick)
    /\ UNCHANGED <<selector, fitness_type, pop0, culled>>

\* run(), lines 122-131: one iteration of the loop; the first one is the call
RunIter ==
    /\ ~panicked
    /\ \E r \in StepResults :
         /\ step(r)
         /\ lastStep' = r
         /\ IF r = Success \/ r = ""
            THEN mode' = "run" /\ runResult' = ""
            ELSE mode' = "idle" /\ runResult' = r
    /\ prevStep' = lastStep
    /\ got' = NoGot
    /\ loopTick' = (mode' = "run" /\ ~loopTick)
    /\ UNCHANGED <<selector, fitness_type, pop0, culled>>

Run == mode = "idle" /\ RunIter
RunLoop == mode = "run" /\ RunIter

\* get() does not look at the recorded error
get_NoErrorCheck ==
    IF population = <<>> THEN [tag |-> "Panic", msg |-> None, best |-> <<>>]
    ELSE [tag |-> "Ok", msg |-> None, best |-> <<Best(population, fitness_type)>>]

\* get(), lines 133-147
get ==
    IF error # None THEN [tag |-> "Err", msg |-> error, best |-> <<>>]
    ELSE IF population = <<>> THEN [tag |-> "Panic", msg |-> None, best |-> <<>>]
    ELSE [tag |-> "Ok", msg |-> None, best |-> <<Best(population, fitness_type)>>]

Get ==
    /\ mode = "idle" /\ ~panicked
    /\ got' = get
    /\ panicked' = (get.tag = "Panic")
    /\ UNCHANGED <<simFields, mode, lastStep, prevStep, runResult, succ,
                   selResult, tournaments, pop0, culled, loopTick>>

\* one fitness throughout, or the fitnesses 1 and NaN in turn
SimSeeds == {<<Num(0)>>, <<Num(1), NaN>>}

SimPopulations == {Cyc(n, seed) : n \in 0..MaxSimPop, seed \in SimSeeds}

\* no early stop, or set_early_stop(1.0, w)
EarlyStoppers ==
    {None} \cup {Some(EarlyStopper_new(1, w)) : w \in 1..MaxWindow}

\* Simulator::builder() with the setters applied, then build()
Init ==
    /\ population \in SimPopulations
    /\ iter_limit \in {IterLimit_new(m) : m \in 0..MaxIters}
    /\ selector \in Selectors(MaxCount, MaxSimPart, Len(population))
    /\ fitness_type \in FitnessType
    /\ earlystopper \in EarlyStoppers
    /\ duration = Some(0)
    /\ error = None
    /\ mode = "idle" /\ panicked = FALSE
    /\ lastStep = "" /\ prevStep = "" /\ runResult = "" /\ succ = 0
    /\ got = NoGot /\ selResult = NoSel /\ tournaments = <<>>
    /\ pop0 = population /\ culled = NoKill /\ loopTick = FALSE

Next == Step \/ Run \/ RunLoop \/ Get

Spec == Init /\ [][Next]_vars

\* a run() call has not returned, and has not panicked
RunInProgress == mode = "run" /\ ~panicked

\* run() is a loop on the calling thread with no suspension point (lines
\* 122-131): once called it goes on calling step().  This is WF_vars(RunLoop)
\* with ENABLED <<RunLoop>>_vars written out: step() has an outcome in every
\* state and every iteration of the loop flips loopTick, so the loop can take
\* a step, and one that changes vars, exactly when RunInProgress holds
RunLoopFair == []<>(~RunInProgress) \/ []<><<RunLoop>>_vars

\* a client that calls run(), and calls it again when it has returned
NextRun == Run \/ RunLoop

FairSpec == Init /\ [][NextRun]_vars /\ RunLoopFair

(* --------------------- TournamentSelector on its own ------------------- *)
InitSel ==
    /\ population \in SelPopulations
    /\ selector \in Selectors(UsizeMod - 1, MaxPart, Len(population))
    /\ fitness_type \in FitnessType
    /\ iter_limit = IterLimit_new(0) /\ earlystopper = None
    /\ duration = Some(0) /\ error = None
    /\ mode = "idle" /\ panicked = FALSE
    /\ lastStep = "" /\ prevStep = "" /\ runResult = "" /\ succ = 0
    /\ got = NoGot /\ selResult = NoSel /\ tournaments = <<>>
    /\ pop0 = population /\ culled = NoKill /\ loopTick = FALSE

\* selector.select(&population, fitness_type)
Select ==
    /\ ~panicked
    /\ selResult.tag \in {"", "Err"}
    /\ \E ts \in SelectDraws(selector, population),
          bld \in BuildsAt(selector) :
         LET res == select(selector, population, fitness_type, bld, ts)
         IN  /\ selResult' = res
             /\ tournaments' = ts
             /\ panicked' = (res.tag = "Panic")
    /\ UNCHANGED <<simFields, mode, lastStep, prevStep, runResult, succ, got,
                   pop0, culled, loopTick>>

NextSel == Select

SpecSel == InitSel /\ [][NextSel]_vars

(* -------------------------- one generation alone ----------------------- *)
\* a Simulator over the populations of the selector's tests, with a budget of
\* one generation and no early stop
InitGen ==
    /\ population \in SelPopulations
    /\ selector \in Selectors(MaxDraws, MaxSimPart, Len(population))
    /\ fitness_type \in FitnessType
    /\ iter_limit = IterLimit_new(1) /\ earlystopper = None
    /\ duration = Some(0) /\ error = None
    /\ mode = "idle" /\ panicked = FALSE
    /\ lastStep = "" /\ prevStep = "" /\ runResult = "" /\ succ = 0
    /\ got = NoGot /\ selResult = NoSel /\ tournaments = <<>>
    /\ pop0 = population /\ culled = NoKill /\ loopTick = FALSE

NextGen == Step

SpecGen == InitGen /\ [][NextGen]_vars

(* -------------------------- kill_off on its own ------------------------ *)
\* the (0-based) positions of a population of n
Positions(n) == [j \in 1..n |-> j - 1]

\* the populations of the selector's tests and (0..n).map(|i| Test { f: i })
\* of test_kill_off_count
KillPopulations == SelPopulations \cup {Ramp(n) : n \in 0..MaxKillPop}

InitKill ==
    /\ population \in KillPopulations
    /\ selector = [count |-> 0, participants |-> 0]
    /\ fitness_type = Maximize
    /\ iter_limit = IterLimit_new(0) /\ earlystopper = None
    /\ duration = Some(0) /\ error = None
    /\ mode = "idle" /\ panicked = FALSE
    /\ lastStep = "" /\ prevStep = "" /\ runResult = "" /\ succ = 0
    /\ got = NoGot /\ selResult = NoSel /\ tournaments = <<>>
    /\ pop0 = population /\ culled = NoKill /\ loopTick = FALSE

\* self.kill_off(count), as test_kill_off_count calls it: gen_range(0, len)
\* draws the start, and panics on an empty range; culled.kept is what the
\* same loop leaves of the positions 0 .. len - 1
Kill ==
    /\ ~panicked /\ ~culled.done
    /\ \E count \in 0..Len(population) :
         IF population = <<>>
         THEN /\ panicked' = TRUE
              /\ culled' = [NoKill EXCEPT !.count = count, !.done = TRUE]
              /\ UNCHANGED population
         ELSE \E i0 \in 0..(Len(population) - 1) :
                LET res == kill_off(population, count, i0)
                    pos == kill_off(Positions(Len(population)), count, i0)
                IN  /\ population' = res.pop
                    /\ panicked' = res.panic
                    /\ culled' = [count |-> count, start |-> i0,
                                  kept |-> pos.pop, done |-> TRUE]
    /\ UNCHANGED <<iter_limit, selector, fitness_type, earlystopper, duration,
                   error, mode, lastStep, prevStep, runResult, succ, got,
                   selResult, tournaments, pop0, loopTick>>

NextKill == Kill

SpecKill == InitKill /\ [][NextKill]_vars

(* ------------------------------- claims -------------------------------- *)
M == iter_limit.max
N0 == Len(pop0)

\* the selector's parameters are valid for a population of n, as the
\* documentation of TournamentSelector::new and the messages of select put it
ValidSelector(sel, n) ==
    /\ sel.count > 0 /\ sel.count % 2 = 0 /\ sel.count * 2 < n
    /\ sel.participants > 0 /\ sel.participants < n

\* C1: a Simulator built with a non-empty population of size n has a
\* population of size n after any sequence of step() and run() calls.
C1_PopulationSize == pop0 # <<>> => Len(population) = N0

C1_Witness ==
    /\ pop0 # <<>> /\ succ >= 2 /\ lastStep = Success
    /\ population # pop0 /\ Len(population) = N0

\* C2: with max-iterations M, no convergence detector, a non-empty population
\* and a selector valid for it, run() returns, and returns Done after exactly
\* M Success steps, with iterations() = M.
C2_RunExactlyM ==
    (pop0 # <<>> /\ earlystopper = None /\ ValidSelector(selector, N0))
        => /\ ~(panicked /\ mode = "run")
           /\ runResult # "" =>
                /\ runResult = Done /\ lastStep = Done
                /\ succ = M /\ IterLimit_get(iter_limit) = M

\* C3: iterations() <= M in every reachable state.
C3_IterationsWithinBudget == IterLimit_get(iter_limit) <= M

C3_Witness ==
    /\ M > 0 /\ IterLimit_get(iter_limit) = M /\ succ = M
    /\ lastStep = Done /\ earlystopper # None

SameFitness(pop) == \A i, j \in 1..Len(pop) : fitness(pop[i]) = fitness(pop[j])

\* C4: on a population of one fitness, with a convergence detector of window
\* w and delta > 0 and a valid selector, run() returns Done after at most w
\* generations, whatever the iteration cap.
C4_EarlyStopWithinWindow ==
    (pop0 # <<>> /\ SameFitness(pop0) /\ ~fitness(pop0[1]).nan
     /\ earlystopper # None /\ ValidSelector(selector, N0))
        => /\ ~(panicked /\ mode = "run")
           /\ succ <= earlystopper[1].window
           /\ runResult # "" => runResult = Done

\* C5: step() on an empty population returns Failure and records an error,
\* whatever the iteration budget and the detector, and get() then returns an
\* error.
C5_EmptyPopulationFails ==
    pop0 = <<>> =>
        /\ lastStep \in {"", Failure} /\ runResult \in {"", Failure}
        /\ lastStep = Failure =>
             /\ error = Some([param |-> "population", value |-> 0])
             /\ get.tag = "Err"
             /\ got.tag \in {"", "Err"}

C5_Witness ==
    /\ pop0 = <<>> /\ M = 0 /\ earlystopper # None
    /\ lastStep = Failure /\ runResult = Failure /\ got.tag = "Err"

\* C6: when select returns an error on a running simulator, step() returns
\* Failure, run() returns Failure and get() returns exactly that error.
C6_SelectorErrorPropagates ==
    selResult.tag = "Err" =>
        LET msg == [param |-> selResult.param, value |-> selResult.value]
        IN  /\ lastStep = Failure /\ mode = "idle"
            /\ runResult \in {"", Failure}
            /\ error = Some(msg)
            /\ get.tag = "Err" /\ get.msg = Some(msg)
            /\ got.tag # "" => got = get

C6_Witness ==
    /\ selResult.tag = "Err" /\ selResult.param = "participants"
    /\ runResult = Failure /\ got.tag = "Err" /\ got.msg = Some(SelMsg(selResult))
    /\ ~IterLimit_reached(iter_limit)

\* C7: select returns an error, and does not panic, whenever count <= 0,
\* count is odd, 2 * count >= n, participants <= 0 or participants >= n.
C7_InvalidParametersRejected ==
    (selResult.tag # "" /\ ~ValidSelector(selector, Len(population)))
        => selResult.tag = "Err"

\* C8: with parameters the validation accepts (count > 0, count even,
\* 2 * count < n, 0 < participants < n) select returns Ok with count / 2 pairs.
C8_ResultSize ==
    (selResult.tag # "" /\ ValidSelector(selector, Len(population)))
        => selResult.tag = "Ok" /\ Len(selResult.pairs) * 2 = selector.count

Orderable(t) == \A j \in 1..Len(t) : ~fitness(t[j]).nan

\* x is at least as good as y
AtLeast(ft, x, y) ==
    /\ ~fitness(x).nan /\ ~fitness(y).nan
    /\ ft = Maximize => fitness(x).v >= fitness(y).v
    /\ ft = Minimize => fitness(x).v <= fitness(y).v

\* pair is the best and the runner-up of the tournament t
Winners(t, pair, ft) ==
    \E i, j \in 1..Len(t) :
        /\ i # j /\ t[i] = pair[1] /\ t[j] = pair[2]
        /\ AtLeast(ft, pair[1], pair[2])
        /\ \A k \in 1..Len(t) \ {i, j} : AtLeast(ft, pair[2], t[k])

\* C9 as claimed: every returned pair is the best and the runner-up of its
\* tournament of `participants` draws.
C9_Original ==
    selResult.tag = "Ok" =>
        /\ Len(tournaments) = Len(selResult.pairs)
        /\ \A r \in 1..Len(tournaments) :
             /\ Len(tournaments[r]) = selector.participants
             /\ Winners(tournaments[r], selResult.pairs[r], fitness_type)

\* C9: every returned pair is drawn from its tournament of `participants`
\* draws, and is its best and its runner-up when every fitness drawn into
\* that tournament is orderable.
C9_TournamentWinners ==
    selResult.tag = "Ok" =>
        /\ Len(tournaments) = Len(selResult.pairs)
        /\ \A r \in 1..Len(tournaments) :
             /\ Len(tournaments[r]) = selector.participants
             /\ \E i, j \in 1..Len(tournaments[r]) :
                  /\ i # j
                  /\ tournaments[r][i] = selResult.pairs[r][1]
                  /\ tournaments[r][j] = selResult.pairs[r][2]
             /\ Orderable(tournaments[r])
                  => Winners(tournaments[r], selResult.pairs[r], fitness_type)

C9_Witness ==
    /\ selResult.tag = "Ok" /\ Len(selResult.pairs) = 1
    /\ selector.participants = 3 /\ Orderable(tournaments[1])
    /\ fitness(tournaments[1][1]).v < fitness(tournaments[1][2]).v
    /\ fitness(tournaments[1][3]).v < fitness(tournaments[1][1]).v
    /\ fitness_type = Maximize
    /\ selResult.pairs[1] = <<tournaments[1][2], tournaments[1][1]>>

\* C10: get() can be called at any point: it returns the recorded error when
\* there is one and a best element of the population otherwise, and is never
\* out of range.
C10_GetIsSafe ==
    /\ got.tag # "Panic"
    /\ got.tag = "Err" => error # None /\ got.msg = error
    /\ got.tag = "Ok" =>
         error = None /\ \E i \in 1..Len(population) : got.best = <<population[i]>>

\* the fitness of y is better than that of x; nothing compares with a
\* non-orderable fitness
Better(ft, y, x) ==
    /\ ~fitness(x).nan /\ ~fitness(y).nan
    /\ ft = Maximize => fitness(y).v > fitness(x).v
    /\ ft = Minimize => fitness(y).v < fitness(x).v

\* x is a best of pop: no fitness there is better than its own
BestOf(ft, x, pop) == \A j \in 1..Len(pop) : ~Better(ft, pop[j], x)

\* C11 as claimed: with no error recorded and a non-empty population, get()
\* returns a member of the population whose fitness is the maximum
\* (Maximize) or the minimum (Minimize) over the population, and changes no
\* field of the Simulator.
C11_Original ==
    [][(got'.tag # "" /\ error = None /\ population # <<>>) =>
          /\ got'.tag = "Ok"
          /\ \E i \in 1..Len(population) : got'.best = <<population[i]>>
          /\ BestOf(fitness_type, got'.best[1], population)
          /\ simFields' = simFields]_vars

\* C11: with no error recorded and a non-empty population, get() returns a
\* member of the population and changes no field of the Simulator; when every
\* fitness of the population is orderable, the fitness of that member is the
\* maximum (Maximize) or the minimum (Minimize) over the population.
C11_GetReturnsBest ==
    [][(got'.tag # "" /\ error = None /\ population # <<>>) =>
          /\ got'.tag = "Ok"
          /\ \E i \in 1..Len(population) : got'.best = <<population[i]>>
          /\ Orderable(population)
               => BestOf(fitness_type, got'.best[1], population)
          /\ simFields' = simFields]_vars

C11_Witness ==
    /\ got.tag = "Ok" /\ error = None /\ succ = 2
    /\ Orderable(population) /\ ~SameFitness(population)
    /\ fitness_type = Maximize
    /\ BestOf(Maximize, got.best[1], population)

\* C12: once a step() has returned Failure, every later step() returns
\* Failure (not Success, not Done, and it does not panic), and every later
\* get() returns the recorded error.
C12_FailedIsPermanent ==
    /\ prevStep = Failure => lastStep = Failure
    /\ lastStep = Failure =>
         /\ error # None
         /\ ~panicked
         /\ got.tag # "" => got.tag = "Err" /\ got.msg = error

C12_Witness ==
    /\ prevStep = Failure /\ lastStep = Failure
    /\ pop0 # <<>> /\ selResult.tag = "Err"
    /\ got.tag = "Err"

\* C13: a run() in progress returns Done or Failure unless the selection
\* crashes, and no more than M steps have returned Success by then.
C13_RunTerminates ==
    /\ [](succ <= M /\ runResult \in {"", Done, Failure})
    /\ (mode = "run") ~> \/ mode = "idle" /\ runResult \in {Done, Failure}
                         \/ selResult.tag = "Panic"

C13_Witness ==
    /\ mode = "run" /\ lastStep = Success /\ prevStep = Success
    /\ succ = M /\ selResult.tag = "Ok" /\ earlystopper = None

\* C14: a step() that returns Done or Failure leaves the population, the
\* iteration count, the detector and the duration as they were; a Done step
\* leaves the error and the selector's last result alone too, and is what a
\* step() on a non-empty population with the budget reached returns, whatever
\* the selector; a Failure step changes the recorded error only.
C14_TerminalStepFrame ==
    [][got' = NoGot =>
          /\ lastStep' \in {Done, Failure} =>
               /\ population' = population
               /\ iter_limit' = iter_limit
               /\ earlystopper' = earlystopper
               /\ duration' = duration
               /\ selector' = selector /\ fitness_type' = fitness_type
          /\ lastStep' = Done => error' = error /\ selResult' = selResult
          /\ lastStep' = Failure => error' # None
          /\ (population # <<>> /\ IterLimit_reached(iter_limit)) =>
               lastStep' = Done /\ error' = error /\ selResult' = selResult]_vars

C14_Witness ==
    /\ lastStep = Done /\ M = 0 /\ pop0 # <<>> /\ population = pop0
    /\ ~ValidSelector(selector, N0)
    /\ selResult = NoSel /\ error = None /\ duration = Some(0)

\* a is b with some elements left out
RECURSIVE IsSubseq(_, _)
IsSubseq(a, b) ==
    IF a = <<>> THEN TRUE
    ELSE IF b = <<>> THEN FALSE
    ELSE IF a[1] = b[1] THEN IsSubseq(Tail(a), Tail(b))
    ELSE IsSubseq(a, Tail(b))

\* C15: a step() that returns Success on the p pairs of the selector leaves a
\* population whose last p elements are mutate(crossover(first, second)) of
\* the pairs, in pair order, and whose first n - p elements are the previous
\* population with p elements left out, in their order.
C15_GenerationShape ==
    [][(got' = NoGot /\ lastStep' = Success) =>
          LET pairs == selResult'.pairs
              p == Len(pairs)
              n == Len(population)
          IN  /\ selResult'.tag = "Ok" /\ p >= 1 /\ p < n
              /\ Len(population') = n
              /\ \A j \in 1..p :
                   population'[n - p + j] =
                       mutate(crossover(pairs[j][1], pairs[j][2]))
              /\ IsSubseq(SubSeq(population', 1, n - p), population)]_vars

C15_Witness ==
    /\ lastStep = Success /\ selResult.tag = "Ok" /\ Len(selResult.pairs) = 2
    /\ pop0 = Ramp(N0)
    /\ population[N0 - 1] = mutate(crossover(selResult.pairs[1][1], selResult.pairs[1][2]))
    /\ population[N0] = mutate(crossover(selResult.pairs[2][1], selResult.pairs[2][2]))
    /\ population[N0 - 1] # population[N0]
    /\ population[1] # pop0[1]

\* kill_off(k) was called on its own with 1 <= k < n
KillInRange == culled.done /\ 1 <= culled.count /\ culled.count < N0

\* C16: kill_off(k) on a population of n, 1 <= k < n, from any start index
\* in 0 .. n - 1 does not panic (no index out of range, no underflow, no
\* remainder by zero), removes one individual in each of its k iterations and
\* leaves n - k individuals, which are the original ones at n - k increasing
\* positions.
C16_KillOffSafe ==
    KillInRange =>
        /\ ~panicked
        /\ Len(population) = N0 - culled.count
        /\ Len(culled.kept) = Len(population)
        /\ \A j \in 1..Len(population) :
             /\ culled.kept[j] \in 0..(N0 - 1)
             /\ population[j] = pop0[culled.kept[j] + 1]
             /\ j > 1 => culled.kept[j - 1] < culled.kept[j]

C16_Witness ==
    /\ KillInRange /\ N0 = 5 /\ culled.count = 2 /\ culled.start = 4
    /\ ~panicked /\ Len(population) = 3 /\ pop0 = Ramp(5)

\* the original positions kill_off removed
Removed == (0..(N0 - 1)) \ {culled.kept[j] : j \in 1..Len(culled.kept)}

\* C17: when k divides n, 1 <= k < n, kill_off(k) from the start index s
\* removes the individuals at the original positions (s + j * (n / k)) mod n,
\* j = 0 .. k - 1.
C17_UniformSpacing ==
    (KillInRange /\ N0 % culled.count = 0) =>
        Removed = {(culled.start + j * (N0 \div culled.count)) % N0 :
                     j \in 0..(culled.count - 1)}

C17_Witness ==
    /\ KillInRange /\ N0 = 9 /\ culled.count = 3 /\ culled.start = 7
    /\ Removed = {7, 1, 4} /\ ~panicked

\* kill_off(k) with k not dividing n, where the removals are not n / k apart
C17_DriftWitness ==
    /\ KillInRange /\ N0 = 5 /\ culled.count = 2 /\ culled.start = 0
    /\ Removed = {0, 2}

\* the budget or the detector says stop
StopReached ==
    \/ IterLimit_reached(iter_limit)
    \/ earlystopper # None /\ EarlyStopper_reached(earlystopper[1])

\* the end of the sorted population that step() and get() call the best
SortedEnd(pop, ft) ==
    IF ft = Maximize THEN sort_by(pop)[Len(pop)] ELSE sort_by(pop)[1]

\* C18 as claimed: step() returns Done when the budget or the detector left
\* by the earlier steps says stop, and Success only when neither does; a
\* Success step increments the iteration counter by one and updates the
\* detector once, with the maximum (Maximize) or minimum (Minimize) fitness
\* of the population that holds the new children.
C18_Original ==
    [][got' = NoGot =>
          /\ lastStep' = Done => StopReached
          /\ lastStep' = Success =>
               /\ ~StopReached
               /\ IterLimit_get(iter_limit') = IterLimit_get(iter_limit) + 1
               /\ earlystopper = None => earlystopper' = None
               /\ earlystopper # None =>
                    \E i \in 1..Len(population') :
                        /\ BestOf(fitness_type, population'[i], population')
                        /\ earlystopper' =
                             Some(EarlyStopper_update(earlystopper[1],
                                                      fitness(population'[i])))]_vars

\* C18: step() returns Done when the budget or the detector left by the
\* earlier steps says stop, and Success only when neither does; a Success
\* step increments the iteration counter by one and updates the detector
\* once, with the fitness of the last (Maximize) or first (Minimize) element
\* of the sorted population that holds the new children, which is the maximum
\* or minimum fitness when every fitness of that population is orderable.
C18_StepOrder ==
    [][got' = NoGot =>
          /\ lastStep' = Done => StopReached
          /\ lastStep' = Success =>
               /\ ~StopReached
               /\ IterLimit_get(iter_limit') = IterLimit_get(iter_limit) + 1
               /\ earlystopper = None => earlystopper' = None
               /\ earlystopper # None =>
                    LET b == SortedEnd(population', fitness_type)
                    IN  /\ Orderable(population')
                             => BestOf(fitness_type, b, population')
                        /\ earlystopper' =
                             Some(EarlyStopper_update(earlystopper[1],
                                                      fitness(b)))]_vars

C18_Witness ==
    /\ lastStep = Success /\ prevStep = Success /\ earlystopper # None
    /\ Orderable(population) /\ ~SameFitness(population)
    /\ fitness_type = Minimize
    /\ earlystopper[1].history = <<Num(1), Num(0)>>
    /\ IterLimit_get(iter_limit) = 2

\* C19: once a step() has returned Done, every later step() returns Done,
\* the population, the iteration count and the error stay as they are, and
\* every get() returns the best individual that a get() in the state of the
\* first Done returns.
C19_DoneIsAbsorbing ==
    [][lastStep = Done =>
          /\ lastStep' = Done
          /\ ~panicked'
          /\ population' = population
          /\ IterLimit_get(iter_limit') = IterLimit_get(iter_limit)
          /\ error' = None /\ fitness_type' = fitness_type
          /\ get.tag = "Ok"
          /\ got'.tag # "" => got' = get]_vars

C19_Witness ==
    /\ prevStep = Done /\ lastStep = Done /\ succ = 2 /\ M = 2
    /\ got.tag = "Ok" /\ got = get /\ population # pop0

\* C20: when the first step() of a Simulator has returned Success (which is
\* when any step() has: a first step() that returns Done or Failure is
\* followed by the same, C19 and C12), no step() returns Failure or panics,
\* no error is recorded, and run() returns Done.
C20_FailureOnlyAtFirstStep ==
    succ >= 1 =>
        /\ lastStep \in {Success, Done}
        /\ runResult \in {"", Done}
        /\ error = None /\ ~panicked
        /\ selResult.tag = "Ok"

C20_Witness ==
    /\ succ = 2 /\ M = 2 /\ earlystopper = None
    /\ prevStep = Success /\ lastStep = Done /\ runResult = Done
    /\ selResult.tag = "Ok" /\ error = None

====
